---------------------------- MODULE Spec2Model ----------------------------
(***************************************************************************)
(* PDF form utilities of packages/bubble-core/scripts:                     *)
(*   discover_pdf_fields.py   sort_fields_reading_order,                   *)
(*                            discover_all_pdf_fields                      *)
(*   get_checkbox_values.py   get_checkbox_export_values                   *)
(*   pdf_to_markdown_images.py  pdf_to_images_for_ai, __main__             *)
(*   fill_form_fields_fitz_v2.py  fill_pdf_form_with_fitz_v2,              *)
(*                            verify_filled_pdf, __main__                  *)
(*   verify_pdf.py            verify_pdf_fields, __main__                  *)
(* The PDF engine (fitz) is the environment: what it enumerates and what   *)
(* its accessors return or raise is chosen nondeterministically from small *)
(* sets.  Coordinates are integers (points).                               *)
(***************************************************************************)
EXTENDS Integers, Sequences, FiniteSets, TLC

VARIABLES
    pc,                 \* position of the running script
    fields,             \* sort_fields_reading_order: the argument list
    sorted_page_fields, \* sort_fields_reading_order: the returned list
    widget,             \* resolver: the checkbox widget as the engine exposes it
    script,             \* resolver: which script resolves the checkbox
    emitted,            \* resolver: the emitted list of export values
    calls,              \* resolver: the strategies invoked, in order
    target_page,        \* discovery: the --page filter (0: None)
    n_pages,            \* discovery: len(pdf_document)
    page_num,           \* discovery: the loop variable of the page loop
    page_fields,        \* discovery: fields of the current page, discovery order
    all_fields,         \* discovery: fields of the finished pages
    result,             \* discovery: the returned list
    aborted,            \* discovery: the outer except clause ran
    named_read,         \* discovery: named widgets read on the processed pages
    widgets_total,      \* discovery: widgets enumerated so far (bounded)
    argv_pages,         \* images: the positional command-line argument
    pages,              \* images: the pages argument of pdf_to_images_for_ai
    max_pages,          \* images: the max_pages argument
    total_pages,        \* images: len(pdf_document)
    page_numbers,       \* images: the 0-based pages to convert
    img_idx,            \* images: position of the page loop in page_numbers
    images,             \* images: the list built and returned
    rendered,           \* images: 1-based pages handed to get_pixmap, in order
    img_aborted,        \* images: the except clause ran
    fill_doc,           \* fill: the widgets of the input, page by page
    field_values,       \* fill: the mapping (parsed JSON object)
    cur_doc,            \* fill: the widgets of the open document
    form_data,          \* fill: the dict collected by the first loop
    fill_page,          \* fill: the loop variable of the page loops (1-based)
    fill_w,             \* fill: position in the page's widget list
    update_failed,      \* fill: <<page, position>> of the updates that raised
    method1_error,      \* fill: the handler of "Method 1" ran
    fill_result,        \* fill: what fill_pdf_form_with_fitz_v2 returned
    verification,       \* fill: what verify_filled_pdf returned
    util,               \* main: the script that runs
    main_argv,          \* main: sys.argv[1:]
    pdf_data,           \* main: the bytes read from stdin (or at the path)
    open_failed,        \* main: fitz.open raised
    fn_result,          \* main: what the script's function returned
    stdout,             \* main: what the script wrote to standard output
    exit_code           \* main: the exit status (-1 while running)

sortVars == <<fields, sorted_page_fields>>
cbVars   == <<widget, script, emitted, calls>>
discVars == <<target_page, n_pages, page_num, page_fields, all_fields, result,
              aborted, named_read, widgets_total>>
imgVars  == <<argv_pages, pages, max_pages, total_pages, page_numbers, img_idx,
              images, rendered, img_aborted>>
fillVars == <<fill_doc, field_values, cur_doc, form_data, fill_page, fill_w,
              update_failed, method1_error, fill_result, verification>>
mainVars == <<util, main_argv, pdf_data, open_failed, fn_result, stdout,
              exit_code>>
utilVars == <<imgVars, fillVars, mainVars>>
vars     == <<pc, sortVars, cbVars, discVars, utilVars>>

-----------------------------------------------------------------------------
(* Bounds *)
MaxFields == 3
MaxStates == 2
MaxKeys == 2
MaxEntryLen == 1
MaxPages == 2
MaxWidgets == 4
MaxListLen == 2
SmallMaxPages == 2
MaxFillPages == 2
MaxPageWidgets == 2
MaxItems == 2

(* Program constants *)
ROW_TOLERANCE == 10
PAGE_CEILING == 100
DEFAULT_MAX_PAGES == 50

(* Coordinates the engine may report: converted y is page_height - rect.y1,
   negative for a widget that reaches below the page box. *)
XCoords == {10, 200}
YCoords == {-22, -12, 3, 12, 14, 300}

-----------------------------------------------------------------------------
(* sort_fields_reading_order *)

(* Python's round(y / d) for integers y and d > 0: nearest integer, a tie
   going to the even one. *)
PyRoundDiv(y, d) ==
    LET q == y \div d
        r == y % d
    IN  IF 2 * r < d THEN q
        ELSE IF 2 * r > d THEN q + 1
        ELSE IF q % 2 = 0 THEN q ELSE q + 1

SnappedRow(y) == PyRoundDiv(y, ROW_TOLERANCE) * ROW_TOLERANCE

get_sort_key(field) == <<SnappedRow(field.y) * (-field.y), field.x>>

(* Python's < on 2-tuples of numbers *)
TupleLess(k1, k2) == k1[1] < k2[1] \/ (k1[1] = k2[1] /\ k1[2] < k2[2])

(* sorted(..., key=get_sort_key) is stable: an element goes after every
   element already placed whose key is not greater than its own. *)
InsertByKey(e, s) ==
    LET n == Cardinality({i \in 1..Len(s) :
                            ~TupleLess(get_sort_key(e), get_sort_key(s[i]))})
    IN  SubSeq(s, 1, n) \o <<e>> \o SubSeq(s, n + 1, Len(s))

RECURSIVE sort_fields_reading_order(_)
sort_fields_reading_order(fs) ==
    IF fs = <<>> THEN <<>>
    ELSE InsertByKey(fs[Len(fs)],
                     sort_fields_reading_order(SubSeq(fs, 1, Len(fs) - 1)))

(* A field of the sorter's argument: n is its discovery position. *)
SortField == [n : 1..MaxFields, x : XCoords, y : YCoords]

FieldLists ==
    UNION {{s \in [1..k -> SortField] : \A i \in 1..k : s[i].n = i} : k \in 0..MaxFields}

IdleSort == fields = <<>> /\ sorted_page_fields = <<>>
IdleCb   == widget = "none" /\ script = "none" /\ emitted = <<>> /\ calls = <<>>
IdleDisc == /\ target_page = 0 /\ n_pages = 0 /\ page_num = 0
            /\ page_fields = <<>> /\ all_fields = <<>> /\ result = <<>>
            /\ aborted = FALSE /\ named_read = 0
            /\ widgets_total = 0
IdleImg  == /\ argv_pages = "none" /\ pages = "none" /\ max_pages = 0
            /\ total_pages = 0 /\ page_numbers = <<>> /\ img_idx = 0
            /\ images = <<>> /\ rendered = <<>> /\ img_aborted = FALSE
IdleFill == /\ fill_doc = <<>> /\ field_values = <<>> /\ cur_doc = <<>>
            /\ form_data = <<>> /\ fill_page = 0 /\ fill_w = 0
            /\ update_failed = {} /\ method1_error = FALSE
            /\ fill_result = "none" /\ verification = <<>>
IdleMain == /\ util = "none" /\ main_argv = <<>> /\ pdf_data = ""
            /\ open_failed = FALSE /\ fn_result = "none" /\ stdout = <<>>
            /\ exit_code = -1
IdleUtil == IdleImg /\ IdleFill /\ IdleMain

InitSort ==
    /\ pc = "call"
    /\ fields \in FieldLists
    /\ sorted_page_fields = <<>>
    /\ IdleCb /\ IdleDisc /\ IdleUtil

SortFields ==
    /\ pc = "call"
    /\ sorted_page_fields' = sort_fields_reading_order(fields)
    /\ pc' = "done"
    /\ UNCHANGED <<fields, cbVars, discVars, utilVars>>

NextSort == SortFields

SpecSort == InitSort /\ [][NextSort]_vars

-----------------------------------------------------------------------------
(* Checkbox export values: discover_all_pdf_fields lines 76-128 and
   get_checkbox_export_values lines 30-62 *)

(* Export-value strings, in Python's ascending string order *)
StrOrder == <<"No", "Off", "Unknown", "Yes">>
StrRank(s) == CHOOSE i \in 1..Len(StrOrder) : StrOrder[i] = s

(* State names an engine accessor may hand out *)
RawStrings == {"No", "Off", "Yes"}
(* field_value of a checkbox: unset, off, or an on-state *)
FieldValues == {"", "Off", "Yes"}

SeqsUpTo(S, n) == UNION {[1..k -> S] : k \in 0..n}
Range(s) == {s[i] : i \in 1..Len(s)}
Distinct(s) == \A i, j \in 1..Len(s) : i # j => s[i] # s[j]

(* A Python value held by choices / appearance_states: a list of strings
   (v) or a dict whose values are listed in d, in the dict's order. *)
ListVal(v) == [kind |-> "list", v |-> v, d |-> <<>>]
DictVal(d) == [kind |-> "dict", v |-> <<>>, d |-> d]
(* A dict value: a list of strings, or something that is no list (None) *)
DictEntries == {[islist |-> FALSE, v |-> <<>>]}
                 \cup {[islist |-> TRUE, v |-> v] : v \in SeqsUpTo(RawStrings, MaxEntryLen)}

(* What widget.button_states may be: missing, raising, or returning a list
   of state names or a mapping from key to list of values *)
ButtonStates ==
    {[kind |-> "absent", v |-> <<>>, d |-> <<>>],
     [kind |-> "raise", v |-> <<>>, d |-> <<>>]}
      \cup {ListVal(v) : v \in SeqsUpTo(RawStrings, MaxStates)}
      \cup {DictVal(d) : d \in SeqsUpTo(DictEntries, MaxKeys)}

(* The key lists of an appearance dictionary: dict keys are distinct *)
KeyLists == {v \in SeqsUpTo(RawStrings, MaxStates) : Distinct(v)}

(* What widget._annot leads to: the attribute is missing ("absent"); it is
   falsy, or has no /AP, no /N or a /N without keys ("none"); an access
   raises; or /AP /N has the keys v *)
AnnotAP ==
    {[kind |-> k, v |-> <<>>] : k \in {"absent", "none", "raise"}}
      \cup {[kind |-> "keys", v |-> v] : v \in KeyLists}

(* What widget._get_widget() leads to: it raises (or a lookup on its
   result does), it has no /AP /N ("none"), or /AP /N has the keys v *)
WidgetAP ==
    {[kind |-> k, v |-> <<>>] : k \in {"none", "raise"}}
      \cup {[kind |-> "keys", v |-> v] : v \in KeyLists}

CheckboxWidgets ==
    [button_states : ButtonStates, annot : AnnotAP, get_widget : WidgetAP,
     field_value : FieldValues]

(* bool(value) of a list or dict *)
Truthy(c) == IF c.kind = "dict" THEN c.d # <<>> ELSE c.v # <<>>

(* sorted(choices, key=lambda x: (str(x) != "Off", str(x))) *)
ChoiceKey(c) == <<IF c # "Off" THEN 1 ELSE 0, StrRank(c)>>

InsertChoice(e, s) ==
    LET n == Cardinality({i \in 1..Len(s) : ~TupleLess(ChoiceKey(e), ChoiceKey(s[i]))})
    IN  SubSeq(s, 1, n) \o <<e>> \o SubSeq(s, n + 1, Len(s))

RECURSIVE SortChoices(_)
SortChoices(cs) ==
    IF cs = <<>> THEN <<>>
    ELSE InsertChoice(cs[Len(cs)], SortChoices(SubSeq(cs, 1, Len(cs) - 1)))

(* all_choices: the list values of the dict, concatenated in dict order *)
RECURSIVE ExtendAll(_)
ExtendAll(d) ==
    IF d = <<>> THEN <<>>
    ELSE (IF d[1].islist THEN d[1].v ELSE <<>>) \o ExtendAll(Tail(d))

(* list(set(all_choices)): the distinct elements, in an order Python leaves
   open; every use sorts the list next, so one order stands for all. *)
RECURSIVE ListOfSet(_)
ListOfSet(S) ==
    IF S = {} THEN <<>>
    ELSE LET e == CHOOSE e \in S : \A o \in S : StrRank(e) <= StrRank(o)
         IN  <<e>> \o ListOfSet(S \ {e})

(* lines 115-121: flatten and deduplicate choices if it is a dict *)
FlattenChoices(c) ==
    IF c.kind = "dict" THEN ListVal(ListOfSet(Range(ExtendAll(c.d)))) ELSE c

(* lines 123-128: "Off" first, for a non-empty list of a checkbox *)
OffFirst(c) == IF c.v # <<>> THEN ListVal(SortChoices(c.v)) ELSE c

NormalizeChoices(c) == OffFirst(FlattenChoices(c))

(* lines 110-113: the values detected from the current value *)
FallbackChoices(field_value) ==
    IF field_value # "" /\ field_value # "Off"
    THEN ListVal(<<"Off", field_value>>) ELSE ListVal(<<"Off">>)

(* Strategy 1, lines 81-82: [choices, calls, raised] *)
DiscoverButtonStates(w) ==
    CASE w.button_states.kind = "absent" ->
            [choices |-> ListVal(<<>>), calls |-> <<>>, raised |-> FALSE]
      [] w.button_states.kind = "raise" ->
            [choices |-> ListVal(<<>>), calls |-> <<1>>, raised |-> TRUE]
      [] OTHER ->
            [choices |-> [kind |-> w.button_states.kind, v |-> w.button_states.v,
                          d |-> w.button_states.d],
             calls |-> <<1>>, raised |-> FALSE]

(* Strategy 2, lines 85-94, after st: runs unless an exception is under way *)
DiscoverAnnotAP(w, st) ==
    IF st.raised \/ Truthy(st.choices) \/ w.annot.kind = "absent" THEN st
    ELSE CASE w.annot.kind = "raise" ->
                 [st EXCEPT !.calls = @ \o <<2>>, !.raised = TRUE]
           [] w.annot.kind = "keys" ->
                 [st EXCEPT !.calls = @ \o <<2>>, !.choices = ListVal(w.annot.v)]
           [] OTHER -> [st EXCEPT !.calls = @ \o <<2>>]

(* Strategy 3, lines 97-106: its own except clause swallows a failure *)
DiscoverWidgetAP(w, st) ==
    IF st.raised \/ Truthy(st.choices) THEN st
    ELSE CASE w.get_widget.kind = "keys" ->
                 [st EXCEPT !.calls = @ \o <<3>>, !.choices = ListVal(w.get_widget.v)]
           [] OTHER -> [st EXCEPT !.calls = @ \o <<3>>]

(* Lines 108-113: the except clause of the block detects from the value *)
DiscoverFallback(w, st) ==
    IF st.raised
    THEN [st EXCEPT !.calls = @ \o <<4>>, !.choices = FallbackChoices(w.field_value)]
    ELSE st

(* discover_all_pdf_fields lines 76-128 for a CheckBox widget *)
DiscoverChoices(w) ==
    LET st == DiscoverFallback(w,
                DiscoverWidgetAP(w, DiscoverAnnotAP(w, DiscoverButtonStates(w))))
    IN  [choices |-> NormalizeChoices(st.choices), calls |-> st.calls,
         raw |-> st.choices]

(* get_checkbox_export_values lines 30-62: possible_values of a checkbox *)
DefaultPossibleValues == ListVal(<<"Off", "Unknown">>)

ExportButtonStates(w) ==
    CASE w.button_states.kind = "absent" ->
            [choices |-> ListVal(<<>>), calls |-> <<>>, raised |-> FALSE]
      [] w.button_states.kind = "raise" ->
            [choices |-> ListVal(<<>>), calls |-> <<1>>, raised |-> TRUE]
      [] OTHER ->
            [choices |-> [kind |-> w.button_states.kind, v |-> w.button_states.v,
                          d |-> w.button_states.d],
             calls |-> <<1>>, raised |-> FALSE]

(* lines 37-43: widget._annot is read whatever strategy 1 gave *)
ExportAnnotAP(w, st) ==
    IF st.raised THEN st
    ELSE CASE w.annot.kind \in {"absent", "raise"} ->
                 [st EXCEPT !.calls = @ \o <<2>>, !.raised = TRUE]
           [] w.annot.kind = "keys" ->
                 [st EXCEPT !.calls = @ \o <<2>>, !.choices = ListVal(w.annot.v)]
           [] OTHER -> [st EXCEPT !.calls = @ \o <<2>>]

(* lines 51 and 55-62 *)
ExportFallback(w, st) ==
    IF st.raised \/ ~Truthy(st.choices)
    THEN [st EXCEPT !.calls = @ \o <<4>>, !.choices = DefaultPossibleValues]
    ELSE st

ExportValues(w) ==
    LET st == ExportFallback(w, ExportAnnotAP(w, ExportButtonStates(w)))
    IN  [choices |-> st.choices, calls |-> st.calls,
         raw |-> ExportAnnotAP(w, ExportButtonStates(w)).choices]

Scripts == {"discover_pdf_fields", "get_checkbox_values"}

InitCheckbox ==
    /\ pc = "call"
    /\ widget \in CheckboxWidgets
    /\ script \in Scripts
    /\ emitted = <<>>
    /\ calls = <<>>
    /\ IdleSort /\ IdleDisc /\ IdleUtil

(* field discovery resolves the choices of the checkbox *)
ResolveChoices ==
    /\ pc = "call"
    /\ script = "discover_pdf_fields"
    /\ emitted' = DiscoverChoices(widget).choices
    /\ calls' = DiscoverChoices(widget).calls
    /\ pc' = "done"
    /\ UNCHANGED <<widget, script, sortVars, utilVars, discVars>>

(* checkbox-value discovery resolves possible_values of the checkbox *)
ResolvePossibleValues ==
    /\ pc = "call"
    /\ script = "get_checkbox_values"
    /\ emitted' = ExportValues(widget).choices
    /\ calls' = ExportValues(widget).calls
    /\ pc' = "done"
    /\ UNCHANGED <<widget, script, sortVars, utilVars, discVars>>

NextCheckbox == ResolveChoices \/ ResolvePossibleValues

SpecCheckbox == InitCheckbox /\ [][NextCheckbox]_vars

-----------------------------------------------------------------------------
(* discover_all_pdf_fields: the page loop, lines 36-170 *)

(* A checkbox whose button_states() groups its states by key *)
GroupedCheckbox ==
    [button_states |-> DictVal(<<[islist |-> TRUE, v |-> <<"Yes">>],
                                 [islist |-> TRUE, v |-> <<"Off">>]>>),
     annot |-> [kind |-> "none", v |-> <<>>],
     get_widget |-> [kind |-> "none", v |-> <<>>],
     field_value |-> "Yes"]

(* A widget that is no checkbox: only its field_value is read *)
PlainWidget ==
    [button_states |-> [kind |-> "absent", v |-> <<>>, d |-> <<>>],
     annot |-> [kind |-> "absent", v |-> <<>>],
     get_widget |-> [kind |-> "none", v |-> <<>>],
     field_value |-> ""]

DocWidget(name, type, x, y, fails, engine) ==
    [field_name |-> name, field_type |-> type, x |-> x, y |-> y,
     fails |-> fails, engine |-> engine]

(* The widgets page.widgets() may enumerate: an unnamed one, one whose
   attributes cannot be read, and named ones at several places. x is
   rect.x0 and y the converted page_height - rect.y1. *)
DocWidgets ==
    {DocWidget("", "Text", 10, 300, FALSE, PlainWidget),
     DocWidget("f", "Text", 10, 300, TRUE, PlainWidget),
     DocWidget("f", "Text", 10, 300, FALSE, PlainWidget),
     DocWidget("f", "Text", 200, 300, FALSE, PlainWidget),
     DocWidget("f", "Signature", 200, 14, FALSE, PlainWidget),
     DocWidget("f", "CheckBox", 10, 12, FALSE, GroupedCheckbox)}

(* lines 69-74 *)
PdfType(field_type) ==
    CASE field_type = "CheckBox" -> "/Btn"
      [] field_type = "Signature" -> "/Sig"
      [] OTHER -> "/Tx"

(* lines 130-152: field_data (id 0: not assigned yet); rect, width, height,
   field_flags and the label keys are passed through and left out *)
FieldData(w, page) ==
    [page |-> page,
     name |-> w.field_name,
     type |-> PdfType(w.field_type),
     field_type |-> w.field_type,
     current_value |-> w.engine.field_value,
     choices |-> IF w.field_type = "CheckBox"
                 THEN DiscoverChoices(w.engine).choices.v ELSE <<>>,
     x |-> w.x,
     y |-> w.y,
     id |-> 0]

(* lines 162-164: for i, field in enumerate(all_fields, 1): field["id"] = i *)
AssignIdsFromZero(fs) == [k \in 1..Len(fs) |-> [fs[k] EXCEPT !.id = k - 1]]
AssignIds(fs) == [k \in 1..Len(fs) |-> [fs[k] EXCEPT !.id = k]]

(* line 46: the page is processed *)
PageSelected(p) == target_page = 0 \/ p = target_page

Init ==
    /\ pc = "open"
    /\ target_page \in 0..MaxPages
    /\ n_pages \in 0..MaxPages
    /\ page_num = 0
    /\ page_fields = <<>>
    /\ all_fields = <<>>
    /\ result = <<>>
    /\ aborted = FALSE
    /\ named_read = 0
    /\ widgets_total = 0
    /\ IdleSort /\ IdleCb /\ IdleUtil

(* lines 168-170: the outer except clause returns [] *)
Abort ==
    /\ result' = <<>>
    /\ aborted' = TRUE
    /\ pc' = "done"
    /\ UNCHANGED <<target_page, n_pages, page_num, page_fields, all_fields,
                   named_read, widgets_total, sortVars, utilVars, cbVars>>

(* line 40: fitz.open succeeds *)
OpenDocument ==
    /\ pc = "open"
    /\ pc' = "page"
    /\ UNCHANGED <<discVars, sortVars, utilVars, cbVars>>

(* line 40: fitz.open raises *)
OpenFails ==
    /\ pc = "open"
    /\ Abort

(* lines 44-47: a page the filter leaves out *)
SkipPage ==
    /\ pc = "page"
    /\ page_num < n_pages
    /\ ~PageSelected(page_num + 1)
    /\ page_num' = page_num + 1
    /\ UNCHANGED <<pc, target_page, n_pages, page_fields, all_fields, result,
                   aborted, named_read, widgets_total, sortVars, utilVars, cbVars>>

(* lines 49-51: the page and its widget list are fetched *)
EnterPage ==
    /\ pc = "page"
    /\ page_num < n_pages
    /\ PageSelected(page_num + 1)
    /\ page_fields' = <<>>
    /\ pc' = "widgets"
    /\ UNCHANGED <<target_page, n_pages, page_num, all_fields, result, aborted,
                   named_read, widgets_total, sortVars, utilVars, cbVars>>

(* lines 49-50: loading the page or enumerating its widgets raises *)
PageFails ==
    /\ pc = "page"
    /\ page_num < n_pages
    /\ PageSelected(page_num + 1)
    /\ Abort

(* lines 53-154: one widget of the page, its attributes readable *)
ReadWidget ==
    /\ pc = "widgets"
    /\ widgets_total < MaxWidgets
    /\ \E w \in DocWidgets :
         /\ ~w.fails
         /\ IF w.field_name # ""
            THEN /\ page_fields' = Append(page_fields, FieldData(w, page_num + 1))
                 /\ named_read' = named_read + 1
            ELSE UNCHANGED <<page_fields, named_read>>
    /\ widgets_total' = widgets_total + 1
    /\ UNCHANGED <<pc, target_page, n_pages, page_num, all_fields, result,
                   aborted, sortVars, utilVars, cbVars>>

(* lines 54-66, 147: reading an attribute of one widget (its rect) raises *)
WidgetFails ==
    /\ pc = "widgets"
    /\ widgets_total < MaxWidgets
    /\ \E w \in DocWidgets : w.fails
    /\ Abort

(* lines 156-158: the widget list is exhausted *)
EndPage ==
    /\ pc = "widgets"
    /\ all_fields' = all_fields \o sort_fields_reading_order(page_fields)
    /\ page_num' = page_num + 1
    /\ pc' = "page"
    /\ UNCHANGED <<target_page, n_pages, page_fields, result, aborted,
                   named_read, widgets_total, sortVars, utilVars, cbVars>>

(* lines 160-166: the page loop is over *)
Finish ==
    /\ pc = "page"
    /\ page_num = n_pages
    /\ all_fields' = AssignIds(all_fields)
    /\ result' = AssignIds(all_fields)
    /\ pc' = "done"
    /\ UNCHANGED <<target_page, n_pages, page_num, page_fields, aborted,
                   named_read, widgets_total, sortVars, utilVars, cbVars>>

Next ==
    \/ OpenDocument \/ OpenFails
    \/ SkipPage \/ EnterPage \/ PageFails
    \/ ReadWidget \/ WidgetFails
    \/ EndPage \/ Finish

Spec == Init /\ [][Next]_vars

-----------------------------------------------------------------------------
(* pdf_to_markdown_images.py: __main__ argument parsing and
   pdf_to_images_for_ai *)

(* Page counts of the documents converted *)
TotalPages == {0, 1, 2, 3, DEFAULT_MAX_PAGES, DEFAULT_MAX_PAGES + 1,
               PAGE_CEILING, PAGE_CEILING + 1, PAGE_CEILING + 50}

(* Numbers a pages argument may hold (1-based page numbers, some invalid) *)
ArgInts == {-1, 0, 1, 2, 3}

(* An array longer than the default cap: 1, 2, ..., and one led by an
   invalid entry: 0, 1, 2, ... *)
LongArray == [i \in 1..(DEFAULT_MAX_PAGES + 2) |-> i]
LongArrayFromZero == [i \in 1..(DEFAULT_MAX_PAGES + 2) |-> i - 1]

(* The first non-flag argument: missing, a JSON array of integers, a single
   integer, or text that is neither *)
PageArgs ==
    {[kind |-> k, n |-> 0, v |-> <<>>] : k \in {"none", "invalid"}}
      \cup {[kind |-> "int", n |-> n, v |-> <<>>] : n \in ArgInts}
      \cup {[kind |-> "array", n |-> 0, v |-> v] :
              v \in SeqsUpTo(ArgInts, MaxListLen) \cup {LongArray, LongArrayFromZero}}

(* max_pages: the default, which __main__ always uses, or a caller's own *)
MaxPagesArgs == {SmallMaxPages, DEFAULT_MAX_PAGES}

(* The value of pages: None, or a list of 0-based page numbers *)
NonePages == [given |-> FALSE, v |-> <<>>]
ListPages(v) == [given |-> TRUE, v |-> v]

(* [p for p in v if p > 0] *)
RECURSIVE PositiveEntries(_)
PositiveEntries(v) ==
    IF v = <<>> THEN <<>>
    ELSE (IF v[1] > 0 THEN <<v[1]>> ELSE <<>>) \o PositiveEntries(Tail(v))

(* __main__ lines 95-108 *)
ParsePagesArg(arg) ==
    CASE arg.kind = "array" ->
            LET pos == PositiveEntries(arg.v)
            IN  ListPages([i \in 1..Len(pos) |-> pos[i] - 1])
      [] arg.kind = "int" /\ arg.n > 0 -> ListPages(<<arg.n - 1>>)
      [] OTHER -> NonePages

(* s[:n] *)
Prefix(s, n) == SubSeq(s, 1, IF n < Len(s) THEN n ELSE Len(s))

Min(a, b) == IF a < b THEN a ELSE b

(* lines 28-32: the pages to convert *)
PageNumbers(pg, cap, total) ==
    IF pg.given /\ pg.v # <<>> THEN Prefix(pg.v, cap)
    ELSE [i \in 1..Min(total, cap) |-> i - 1]

(* lines 55-62: one image; data, width, height and size_kb are the
   engine's and left out *)
ImageOf(page_no) == [page |-> page_no + 1, format |-> "jpeg"]

InitImages ==
    /\ pc = "main"
    /\ argv_pages \in PageArgs
    /\ max_pages \in MaxPagesArgs
    /\ total_pages \in TotalPages
    /\ pages = NonePages
    /\ page_numbers = <<>>
    /\ img_idx = 0
    /\ images = <<>>
    /\ rendered = <<>>
    /\ img_aborted = FALSE
    /\ IdleSort /\ IdleCb /\ IdleDisc /\ IdleFill /\ IdleMain

(* __main__ lines 84-117 *)
ImgParseArgs ==
    /\ pc = "main"
    /\ pages' = ParsePagesArg(argv_pages)
    /\ pc' = "open"
    /\ UNCHANGED <<argv_pages, max_pages, total_pages, page_numbers, img_idx,
                   images, rendered, img_aborted, sortVars, cbVars, discVars,
                   fillVars, mainVars>>

(* lines 74-78: the except clause returns [] *)
ImgAbort ==
    /\ images' = <<>>
    /\ img_aborted' = TRUE
    /\ pc' = "done"
    /\ UNCHANGED <<argv_pages, pages, max_pages, total_pages, page_numbers,
                   img_idx, rendered, sortVars, cbVars, discVars,
                   fillVars, mainVars>>

(* lines 17-34: the document opens; the size guard, then the selection *)
ImgOpen ==
    /\ pc = "open"
    /\ IF total_pages > PAGE_CEILING
       THEN /\ images' = <<>>
            /\ pc' = "done"
            /\ UNCHANGED <<page_numbers, img_idx>>
       ELSE /\ page_numbers' = PageNumbers(pages, max_pages, total_pages)
            /\ img_idx' = 1
            /\ pc' = "loop"
            /\ UNCHANGED images
    /\ UNCHANGED <<argv_pages, pages, max_pages, total_pages, rendered,
                   img_aborted, sortVars, cbVars, discVars,
                   fillVars, mainVars>>

(* line 17: fitz.open raises *)
ImgOpenFails ==
    /\ pc = "open"
    /\ ImgAbort

(* lines 39-41: a page number past the document *)
ImgSkipMissing ==
    /\ pc = "loop"
    /\ img_idx <= Len(page_numbers)
    /\ page_numbers[img_idx] >= total_pages
    /\ img_idx' = img_idx + 1
    /\ UNCHANGED <<pc, argv_pages, pages, max_pages, total_pages, page_numbers,
                   images, rendered, img_aborted, sortVars, cbVars, discVars,
                   fillVars, mainVars>>

(* lines 43-66: the page is rendered and its image appended *)
ImgRender ==
    /\ pc = "loop"
    /\ img_idx <= Len(page_numbers)
    /\ page_numbers[img_idx] < total_pages
    /\ rendered' = Append(rendered, page_numbers[img_idx] + 1)
    /\ images' = Append(images, ImageOf(page_numbers[img_idx]))
    /\ img_idx' = img_idx + 1
    /\ UNCHANGED <<pc, argv_pages, pages, max_pages, total_pages, page_numbers,
                   img_aborted, sortVars, cbVars, discVars,
                   fillVars, mainVars>>

(* lines 43-50: loading or rendering the page raises *)
ImgRenderFails ==
    /\ pc = "loop"
    /\ img_idx <= Len(page_numbers)
    /\ page_numbers[img_idx] < total_pages
    /\ ImgAbort

(* lines 68-72 *)
ImgFinish ==
    /\ pc = "loop"
    /\ img_idx > Len(page_numbers)
    /\ pc' = "done"
    /\ UNCHANGED <<imgVars, sortVars, cbVars, discVars,
                   fillVars, mainVars>>

NextImages ==
    \/ ImgParseArgs \/ ImgOpen \/ ImgOpenFails
    \/ ImgSkipMissing \/ ImgRender \/ ImgRenderFails \/ ImgFinish

SpecImages == InitImages /\ [][NextImages]_vars

-----------------------------------------------------------------------------
(* fill_form_fields_fitz_v2.py: fill_pdf_form_with_fitz_v2 and
   verify_filled_pdf, as __main__ calls them *)

(* widget.field_name; "" stands for a widget without a name (None or ""),
   which `if widget.field_name` passes over *)
FillNames == {"", "name", "date"}

(* widget.field_value of the input; "" stands for an empty field *)
PrevValues == {"", "old"}

(* A widget without a name is passed over whatever its value *)
FillWidget ==
    {w \in [field_name : FillNames, field_value : PrevValues] :
       w.field_name = "" => w.field_value = "old"}
FillDocs == SeqsUpTo(SeqsUpTo(FillWidget, MaxPageWidgets), MaxFillPages)

(* Values of the JSON object in sys.argv[1], as json.loads returns them *)
JsonStr(s) == [t |-> "str", s |-> s, i |-> 0, b |-> FALSE]
JsonInt(i) == [t |-> "int", s |-> "", i |-> i, b |-> FALSE]
JsonBool(b) == [t |-> "bool", s |-> "", i |-> 0, b |-> b]
JsonValues == {JsonStr("Jane"), JsonInt(-12), JsonBool(TRUE)}

FillKeys == {"name", "date"}
Mappings == UNION {[K -> JsonValues] : K \in SUBSET FillKeys}

(* Python's str() on a value json.loads returns *)
Digits == <<"0", "1", "2", "3", "4", "5", "6", "7", "8", "9">>
RECURSIVE NatStr(_)
NatStr(n) == IF n < 10 THEN Digits[n + 1]
             ELSE NatStr(n \div 10) \o Digits[(n % 10) + 1]
PyStr(j) ==
    CASE j.t = "str" -> j.s
      [] j.t = "int" -> IF j.i < 0 THEN "-" \o NatStr(-j.i) ELSE NatStr(j.i)
      [] j.t = "bool" -> IF j.b THEN "True" ELSE "False"
      [] OTHER -> "None"

(* lines 32-37: the widgets of one page added to form_data *)
CollectPage(fd, widgets, fv) ==
    LET hit == ({widgets[i].field_name : i \in 1..Len(widgets)} \ {""})
                 \cap DOMAIN fv
    IN  [k \in DOMAIN fd \cup hit |-> IF k \in hit THEN PyStr(fv[k]) ELSE fd[k]]

(* line 51: the widget is one the update loop sets *)
IsTarget(w, fv) == w.field_name # "" /\ w.field_name \in DOMAIN fv

SetValue(doc, p, i, v) ==
    [doc EXCEPT ![p] = [@ EXCEPT ![i] = [@ EXCEPT !.field_value = v]]]

PendingResult == [kind |-> "pending", doc |-> <<>>]
NoneResult == [kind |-> "None", doc |-> <<>>]
BytesResult(doc) == [kind |-> "bytes", doc |-> doc]

RECURSIVE Flatten(_)
Flatten(ss) == IF ss = <<>> THEN <<>> ELSE ss[1] \o Flatten(Tail(ss))

(* verify_filled_pdf lines 90-103: a dict keyed by field name, a later
   widget of the same name replacing an earlier one *)
Reread(doc) ==
    LET ws == Flatten(doc)
        named == {i \in 1..Len(ws) : ws[i].field_name # ""}
        last(k) == CHOOSE i \in named :
                     /\ ws[i].field_name = k
                     /\ \A j \in named : ws[j].field_name = k => j <= i
    IN  [k \in {ws[i].field_name : i \in named} |->
           IF ws[last(k)].field_value # "" THEN ws[last(k)].field_value ELSE ""]

InitFill ==
    /\ pc = "open"
    /\ fill_doc \in FillDocs
    /\ field_values \in Mappings
    /\ cur_doc = fill_doc
    /\ form_data = <<>>
    /\ fill_page = 0
    /\ fill_w = 0
    /\ update_failed = {}
    /\ method1_error = FALSE
    /\ fill_result = PendingResult
    /\ verification = <<>>
    /\ IdleSort /\ IdleCb /\ IdleDisc /\ IdleImg /\ IdleMain

notFill == <<sortVars, cbVars, discVars, imgVars, mainVars>>

(* lines 16-28 *)
FillOpen ==
    /\ pc = "open"
    /\ pc' = "collect"
    /\ fill_page' = 1
    /\ UNCHANGED <<fill_doc, field_values, cur_doc, form_data, fill_w,
                   update_failed, method1_error, fill_result, verification,
                   notFill>>

(* lines 78-82: the outer except clause returns None; __main__ line 129
   then skips the verification *)
FillReturnNone ==
    /\ fill_result' = NoneResult
    /\ pc' = "done"
    /\ UNCHANGED <<fill_doc, field_values, cur_doc, form_data, fill_page,
                   fill_w, update_failed, method1_error, verification, notFill>>

(* line 16: fitz.open raises *)
FillOpenFails ==
    /\ pc = "open"
    /\ FillReturnNone

(* lines 28-37: one page of the first loop *)
FillCollectPage ==
    /\ pc = "collect"
    /\ fill_page <= Len(cur_doc)
    /\ form_data' = CollectPage(form_data, cur_doc[fill_page], field_values)
    /\ fill_page' = fill_page + 1
    /\ UNCHANGED <<pc, fill_doc, field_values, cur_doc, fill_w, update_failed,
                   method1_error, fill_result, verification, notFill>>

(* lines 68-69: the handler of "Method 1" logs the error and the function
   goes on to line 71 *)
FillMethod1Error ==
    /\ method1_error' = TRUE
    /\ pc' = "save"
    /\ UNCHANGED <<fill_doc, field_values, cur_doc, form_data, fill_page,
                   fill_w, update_failed, fill_result, verification, notFill>>

(* lines 29-30: loading the page or listing its widgets raises *)
FillCollectFails ==
    /\ pc = "collect"
    /\ fill_page <= Len(cur_doc)
    /\ FillMethod1Error

(* lines 39-45: the first loop is over *)
FillCollected ==
    /\ pc = "collect"
    /\ fill_page > Len(cur_doc)
    /\ IF DOMAIN form_data # {}
       THEN pc' = "update" /\ fill_page' = 1 /\ fill_w' = 1
       ELSE pc' = "save" /\ UNCHANGED <<fill_page, fill_w>>
    /\ UNCHANGED <<fill_doc, field_values, cur_doc, form_data, update_failed,
                   method1_error, fill_result, verification, notFill>>

(* lines 46-47: loading the page or listing its widgets raises *)
FillPageFails ==
    /\ pc = "update"
    /\ fill_page <= Len(cur_doc)
    /\ fill_w = 1
    /\ FillMethod1Error

AtWidget ==
    /\ pc = "update"
    /\ fill_page <= Len(cur_doc)
    /\ fill_w <= Len(cur_doc[fill_page])

(* lines 51-60: the value is set and the widget updated *)
FillUpdateWidget ==
    /\ AtWidget
    /\ IsTarget(cur_doc[fill_page][fill_w], field_values)
    /\ cur_doc' = SetValue(cur_doc, fill_page, fill_w,
                           PyStr(field_values[cur_doc[fill_page][fill_w].field_name]))
    /\ fill_w' = fill_w + 1
    /\ UNCHANGED <<pc, fill_doc, field_values, form_data, fill_page,
                   update_failed, method1_error, fill_result, verification,
                   notFill>>

(* lines 56-57, 62-63: the assignment or widget.update() raises; what the
   engine has written by then is the engine's *)
FillUpdateFails ==
    /\ AtWidget
    /\ IsTarget(cur_doc[fill_page][fill_w], field_values)
    /\ \E v \in {cur_doc[fill_page][fill_w].field_value,
                 PyStr(field_values[cur_doc[fill_page][fill_w].field_name])} :
         cur_doc' = SetValue(cur_doc, fill_page, fill_w, v)
    /\ update_failed' = update_failed \cup {<<fill_page, fill_w>>}
    /\ fill_w' = fill_w + 1
    /\ UNCHANGED <<pc, fill_doc, field_values, form_data, fill_page,
                   method1_error, fill_result, verification, notFill>>

(* line 51: a widget without a name, or whose name is no key *)
FillSkipWidget ==
    /\ AtWidget
    /\ ~IsTarget(cur_doc[fill_page][fill_w], field_values)
    /\ fill_w' = fill_w + 1
    /\ UNCHANGED <<pc, fill_doc, field_values, cur_doc, form_data, fill_page,
                   update_failed, method1_error, fill_result, verification,
                   notFill>>

(* lines 65-66, 45: the next page *)
FillEndPage ==
    /\ pc = "update"
    /\ fill_page <= Len(cur_doc)
    /\ fill_w > Len(cur_doc[fill_page])
    /\ fill_page' = fill_page + 1
    /\ fill_w' = 1
    /\ UNCHANGED <<pc, fill_doc, field_values, cur_doc, form_data,
                   update_failed, method1_error, fill_result, verification,
                   notFill>>

(* line 71: the second loop is over *)
FillUpdated ==
    /\ pc = "update"
    /\ fill_page > Len(cur_doc)
    /\ pc' = "save"
    /\ UNCHANGED <<fillVars, notFill>>

(* lines 74-76: the document is serialized and returned *)
FillSave ==
    /\ pc = "save"
    /\ fill_result' = BytesResult(cur_doc)
    /\ pc' = "verify"
    /\ UNCHANGED <<fill_doc, field_values, cur_doc, form_data, fill_page,
                   fill_w, update_failed, method1_error, verification, notFill>>

(* line 74: tobytes raises *)
FillSaveFails ==
    /\ pc = "save"
    /\ FillReturnNone

(* __main__ lines 129-131, verify_filled_pdf lines 88-106 *)
FillVerify ==
    /\ pc = "verify"
    /\ verification' = Reread(fill_result.doc)
    /\ pc' = "done"
    /\ UNCHANGED <<fill_doc, field_values, cur_doc, form_data, fill_page,
                   fill_w, update_failed, method1_error, fill_result, notFill>>

(* verify_filled_pdf lines 108-110: reading the output raises, {} *)
FillVerifyFails ==
    /\ pc = "verify"
    /\ pc' = "done"
    /\ UNCHANGED <<fillVars, notFill>>

NextFill ==
    \/ FillOpen \/ FillOpenFails \/ FillCollectPage \/ FillCollectFails
    \/ FillCollected \/ FillPageFails \/ FillUpdateWidget \/ FillUpdateFails
    \/ FillSkipWidget \/ FillEndPage \/ FillUpdated \/ FillSave
    \/ FillSaveFails \/ FillVerify \/ FillVerifyFails

SpecFill == InitFill /\ [][NextFill]_vars

-----------------------------------------------------------------------------
(* The __main__ blocks of the five scripts around their functions.  What a
   function returns once the document is open is drawn from the shapes it
   can return. *)

Utilities == {"discover_pdf_fields", "get_checkbox_values",
              "pdf_to_markdown_images", "fill_form_fields_fitz_v2",
              "verify_pdf"}

(* The bytes on stdin, or in the file at the path given to verify_pdf *)
InputBytes == {"", "%PDF-1.7 form", "not a pdf"}

(* sys.argv[1:] *)
ArgLists(u) ==
    CASE u = "discover_pdf_fields" -> {<<>>, <<"--page", "1">>, <<"--page", "x">>}
      [] u = "get_checkbox_values" -> {<<>>, <<"ignored">>}
      [] u = "pdf_to_markdown_images" -> {<<>>, <<"1">>, <<"--save">>, <<"[\"a\"]">>}
      [] u = "fill_form_fields_fitz_v2" -> {<<>>, <<"{\"name\":\"Jane\"}">>, <<"{">>}
      [] OTHER -> {<<>>, <<"form.pdf">>}

(* The exit status of a script whose arguments end it before the document
   is opened, 0 when they do not: argparse rejects --page x (exit 2), the
   comparison "a" > 0 and json.loads("{") raise (exit 1), verify_pdf
   without a path calls sys.exit(1). *)
ArgExit(u, argv) ==
    CASE u = "discover_pdf_fields" /\ argv = <<"--page", "x">> -> 2
      [] u = "pdf_to_markdown_images" /\ argv = <<"[\"a\"]">> -> 1
      [] u = "fill_form_fields_fitz_v2" /\ argv = <<"{">> -> 1
      [] u = "verify_pdf" /\ argv = <<>> -> 1
      [] OTHER -> 0

ListResult(items) == [kind |-> "list", items |-> items, data |-> ""]
DictResult(items) == [kind |-> "dict", items |-> items, data |-> ""]
NoneValue == [kind |-> "None", items |-> <<>>, data |-> ""]
BytesValue(data) == [kind |-> "bytes", items |-> <<>>, data |-> data]

(* What the script's function returns when fitz.open raises *)
OnOpenFailure(u) ==
    CASE u = "discover_pdf_fields" -> ListResult(<<>>)
      [] u = "get_checkbox_values" -> DictResult(<<>>)
      [] u = "pdf_to_markdown_images" -> ListResult(<<>>)
      [] u = "fill_form_fields_fitz_v2" -> NoneValue
      [] OTHER -> DictResult(<<>>)

(* What the function can return once the document is open; an item is the
   JSON text of one record *)
Returns(u, data) ==
    CASE u \in {"discover_pdf_fields", "pdf_to_markdown_images"} ->
            {ListResult(it) : it \in SeqsUpTo({"{\"page\":1}"}, MaxItems)}
      [] u \in {"get_checkbox_values", "verify_pdf"} ->
            {DictResult(it) : it \in SeqsUpTo({"\"cb\":{\"page\":1}"}, MaxItems)}
      [] OTHER -> {NoneValue, BytesValue(data \o " filled")}

(* json.dumps(v, separators=(",", ":")) of a list or a dict *)
RECURSIVE JoinComma(_)
JoinComma(items) ==
    IF items = <<>> THEN ""
    ELSE IF Len(items) = 1 THEN items[1]
    ELSE items[1] \o "," \o JoinComma(Tail(items))
JsonDumps(v) ==
    IF v.kind = "list" THEN "[" \o JoinComma(v.items) \o "]"
    ELSE "{" \o JoinComma(v.items) \o "}"

(* fill_form_fields_fitz_v2 __main__ lines 143-148 *)
FillMainOutputNoFallback(res, data) == res.data
FillMainOutput(res, data) == IF res.kind = "None" THEN data ELSE res.data

(* What __main__ writes to standard output after the function returned *)
MainOutput(u, res, data) ==
    CASE u = "fill_form_fields_fitz_v2" -> <<FillMainOutput(res, data)>>
      [] u = "verify_pdf" -> <<>>
      [] OTHER -> <<JsonDumps(res)>>

InitMain ==
    /\ pc = "main"
    /\ util \in Utilities
    /\ main_argv \in ArgLists(util)
    /\ pdf_data \in InputBytes
    /\ open_failed = FALSE
    /\ fn_result = NoneValue
    /\ stdout = <<>>
    /\ exit_code = -1
    /\ IdleSort /\ IdleCb /\ IdleDisc /\ IdleImg /\ IdleFill

notMain == <<sortVars, cbVars, discVars, imgVars, fillVars>>

(* The arguments are accepted and the function is called *)
MainParseArgs ==
    /\ pc = "main"
    /\ ArgExit(util, main_argv) = 0
    /\ pc' = "call"
    /\ UNCHANGED <<util, main_argv, pdf_data, open_failed, fn_result, stdout,
                   exit_code, notMain>>

(* The arguments end the script: verify_pdf prints its usage line *)
MainArgError ==
    /\ pc = "main"
    /\ ArgExit(util, main_argv) # 0
    /\ exit_code' = ArgExit(util, main_argv)
    /\ stdout' = IF util = "verify_pdf" THEN <<"Usage: python verify_pdf.py <pdf_path>">>
                 ELSE <<>>
    /\ pc' = "done"
    /\ UNCHANGED <<util, main_argv, pdf_data, open_failed, fn_result, notMain>>

(* fitz.open raises: the function's except clause returns; verify_pdf's
   prints the error on standard output *)
MainOpenFails ==
    /\ pc = "call"
    /\ open_failed' = TRUE
    /\ fn_result' = OnOpenFailure(util)
    /\ stdout' = IF util = "verify_pdf" THEN <<"Error">> ELSE <<>>
    /\ pc' = "emit"
    /\ UNCHANGED <<util, main_argv, pdf_data, exit_code, notMain>>

(* The document opens and the function returns; verify_pdf prints the page
   count and its findings *)
MainRun ==
    /\ pc = "call"
    /\ fn_result' \in Returns(util, pdf_data)
    /\ stdout' = IF util = "verify_pdf"
                 THEN <<"PDF has pages">> \o fn_result'.items
                 ELSE <<>>
    /\ pc' = "emit"
    /\ UNCHANGED <<util, main_argv, pdf_data, open_failed, exit_code, notMain>>

SavesImages ==
    /\ util = "pdf_to_markdown_images"
    /\ main_argv = <<"--save">>
    /\ fn_result.items # <<>>

(* The result is written and the script ends *)
MainEmit ==
    /\ pc = "emit"
    /\ stdout' = stdout \o MainOutput(util, fn_result, pdf_data)
    /\ exit_code' = 0
    /\ pc' = "done"
    /\ UNCHANGED <<util, main_argv, pdf_data, open_failed, fn_result, notMain>>

(* pdf_to_markdown_images lines 120-138: creating the directory or writing
   an image file raises *)
MainSaveFails ==
    /\ pc = "emit"
    /\ SavesImages
    /\ exit_code' = 1
    /\ pc' = "done"
    /\ UNCHANGED <<util, main_argv, pdf_data, open_failed, fn_result, stdout,
                   notMain>>

NextMain ==
    \/ MainParseArgs \/ MainArgError \/ MainOpenFails \/ MainRun
    \/ MainEmit \/ MainSaveFails

SpecMain == InitMain /\ [][NextMain]_vars

-----------------------------------------------------------------------------
(* Reading order, C1 - C3 *)

Done == pc = "done"

(* Position in the sorter's output of the field discovered n-th *)
PosOf(n) == CHOOSE k \in 1..Len(sorted_page_fields) : sorted_page_fields[k].n = n

(* C1: a field whose snapped row is strictly before another's in
   top-to-bottom order (descending snapped row) precedes it in the output,
   whatever the x values. *)
C1_RowOrderDecides ==
    Done => \A a, b \in 1..Len(fields) :
              SnappedRow(fields[a].y) > SnappedRow(fields[b].y)
                => PosOf(a) < PosOf(b)

(* C2: of two fields with equal snapped rows, the one with the smaller x
   precedes the other, also when their y differ within the row. *)
C2_SameRowLeftToRight ==
    Done => \A a, b \in 1..Len(fields) :
              (/\ SnappedRow(fields[a].y) = SnappedRow(fields[b].y)
               /\ fields[a].x < fields[b].x)
                => PosOf(a) < PosOf(b)

IsPermutationOf(out, in) ==
    /\ Len(out) = Len(in)
    /\ \A i \in 1..Len(in) : \E k \in 1..Len(out) : out[k] = in[i]
    /\ \A k \in 1..Len(out) : \E i \in 1..Len(in) : out[k] = in[i]

(* C3: the output is a permutation of the input, and two fields with the
   same snapped row and the same x keep their input order. *)
C3_StableOnRowAndX ==
    Done => /\ IsPermutationOf(sorted_page_fields, fields)
            /\ \A a, b \in 1..Len(fields) :
                 (/\ a < b
                  /\ SnappedRow(fields[a].y) = SnappedRow(fields[b].y)
                  /\ fields[a].x = fields[b].x)
                   => PosOf(a) < PosOf(b)

-----------------------------------------------------------------------------
(* Checkbox export values, C5 - C9 *)

(* The strings a list or dict value holds *)
ValuesOf(c) == IF c.kind = "dict" THEN Range(ExtendAll(c.d)) ELSE Range(c.v)

InDiscovery == script = "discover_pdf_fields"

(* C5: the emitted export values are a list with "Off" first whenever "Off"
   is among them and every other value after it in ascending string order,
   in field discovery (choices) and in checkbox-value discovery
   (possible_values) alike. *)
C5_OffFirstThenAscending ==
    Done => /\ emitted.kind = "list"
            /\ \A i, j \in 1..Len(emitted.v) :
                 i < j => /\ emitted.v[j] = "Off" => emitted.v[i] = "Off"
                          /\ (emitted.v[i] # "Off" /\ emitted.v[j] # "Off")
                               => StrRank(emitted.v[i]) <= StrRank(emitted.v[j])

(* C6: the normalized choices of a checkbox in field discovery hold no
   string twice, whatever raw list or mapping a strategy produced. *)
C6_ChoicesDistinct ==
    (Done /\ InDiscovery) => Distinct(emitted.v)

(* Strategy 1 yields at least one state name *)
ButtonStatesNonEmpty ==
    /\ widget.button_states.kind \in {"list", "dict"}
    /\ ValuesOf(widget.button_states) # {}

(* C7: when strategy 1 (button_states) yields a non-empty result, none of
   strategies 2-4 is invoked and the emitted values are those of
   strategy 1. *)
C7_FirstStrategyWins ==
    (Done /\ ButtonStatesNonEmpty)
      => /\ calls = <<1>>
         /\ ValuesOf(emitted) = ValuesOf(widget.button_states)

(* Strategies 1-3 all produce an empty result, none of them failing *)
NoExposedStates ==
    /\ \/ widget.button_states.kind = "absent"
       \/ /\ widget.button_states.kind \in {"list", "dict"}
          /\ ValuesOf(widget.button_states) = {}
    /\ widget.annot.kind \in {"absent", "none", "keys"}
    /\ widget.annot.v = <<>>
    /\ widget.get_widget.kind \in {"none", "keys"}
    /\ widget.get_widget.v = <<>>

(* C8: the resolved list is never empty, and a checkbox with no exposed
   appearance states resolves to ["Off", currentValue] when the current
   value is known and not "Off", and to ["Off"] otherwise. *)
C8_FallbackFromCurrentValue ==
    Done => /\ ValuesOf(emitted) # {}
            /\ NoExposedStates
                 => emitted = ListVal(IF widget.field_value \notin {"", "Off"}
                                      THEN <<"Off", widget.field_value>>
                                      ELSE <<"Off">>)

Invoked(k) == k \in Range(calls)

(* C9: in field discovery a failure inside strategy 1, 2 or 3 counts as an
   empty result: the next strategy in the order 1, 2, 3, 4 is still tried
   (strategy 2 is probed only on a widget that has the attribute), and a
   list is emitted. *)
C9_FailureFallsThrough ==
    (Done /\ InDiscovery)
      => /\ widget.button_states.kind = "raise"
              => IF widget.annot.kind # "absent" THEN Invoked(2) ELSE Invoked(3)
         /\ (Invoked(2) /\ widget.annot.kind = "raise") => Invoked(3)
         /\ (Invoked(3) /\ widget.get_widget.kind = "raise") => Invoked(4)
         /\ emitted.kind = "list"

-----------------------------------------------------------------------------
(* Field discovery, C4 and C10 *)

(* C4: the k-th record returned has id k, so the ids are 1..N; the records
   come page by page in ascending page number and, within a page, in the
   order of the sorter's key; a run that no engine failure cut short
   returns one record per named widget of the processed pages, and a run
   cut short returns no record. *)
C4_IdsContiguousInReadingOrder ==
    Done => /\ \A k \in 1..Len(result) : result[k].id = k
            /\ \A k \in 1..(Len(result) - 1) :
                 /\ result[k].page <= result[k + 1].page
                 /\ result[k].page = result[k + 1].page
                      => ~TupleLess(get_sort_key(result[k + 1]), get_sort_key(result[k]))
            /\ \A k \in 1..Len(result) : PageSelected(result[k].page)
            /\ Len(result) = IF aborted THEN 0 ELSE named_read

(* A finished run over two processed pages, one of them with two fields *)
C4_Witness ==
    /\ Done /\ ~aborted
    /\ Len(result) >= 3
    /\ \E j, k \in 1..Len(result) : result[j].page # result[k].page
    /\ \E k \in 1..(Len(result) - 1) :
         /\ result[k].page = result[k + 1].page
         /\ get_sort_key(result[k]) # get_sort_key(result[k + 1])

(* C10: a failure on one field or page only skips that field or page: the
   result holds every field that was read successfully. *)
C10_FailSoftPerItem ==
    Done => Len(result) = named_read

-----------------------------------------------------------------------------
(* Page-to-image conversion, C11 *)

(* The entries of the explicit page list, as given (1-based) *)
ListGiven == argv_pages.kind \in {"array", "int"}
ListEntries == IF argv_pages.kind = "int" THEN <<argv_pages.n>> ELSE argv_pages.v

(* The entries of s that are pages of a document of total pages *)
RECURSIVE ExistingPages(_, _)
ExistingPages(s, total) ==
    IF s = <<>> THEN <<>>
    ELSE (IF s[1] \in 1..total THEN <<s[1]>> ELSE <<>>)
           \o ExistingPages(Tail(s), total)

FirstPages == [i \in 1..Min(total_pages, max_pages) |-> i]

(* The run rendered and emitted exactly the pages sel; a document over the
   ceiling rendered and emitted nothing. *)
ConvertsExactly(sel) ==
    /\ total_pages > PAGE_CEILING => (images = <<>> /\ rendered = <<>>)
    /\ total_pages <= PAGE_CEILING
         => /\ rendered = sel
            /\ images = [k \in 1..Len(sel) |-> [page |-> sel[k], format |-> "jpeg"]]
    /\ Len(images) <= max_pages
    /\ \A k \in 1..Len(images) : images[k].page \in 1..total_pages

(* C11: over the ceiling nothing is rendered or emitted; else the pages
   rendered are the first min(total_pages, max_pages) pages when no explicit
   list is given, or the existing pages among the first max_pages entries of
   the explicit list; at most max_pages images, each a page of the document.
   Stated of the runs no engine failure cut short. *)
C11_PageSelection ==
    (Done /\ ~img_aborted)
      => ConvertsExactly(IF ListGiven
                         THEN ExistingPages(Prefix(ListEntries, max_pages), total_pages)
                         ELSE FirstPages)

-----------------------------------------------------------------------------
(* Field filling, C12 *)

(* fill_pdf_form_with_fitz_v2 returned the bytes of the document: the run
   that __main__ lines 129 and 143 take for a filling that did not fail *)
Filled == Done /\ fill_result.kind = "bytes"

WidgetPositions ==
    {<<p, i>> : p \in 1..MaxFillPages, i \in 1..MaxPageWidgets}
      \cap {pos \in Nat \X Nat :
              /\ pos[1] \in 1..Len(fill_doc)
              /\ pos[2] \in 1..Len(fill_doc[pos[1]])}

NameAt(pos) == fill_doc[pos[1]][pos[2]].field_name
ValueBefore(pos) == fill_doc[pos[1]][pos[2]].field_value
ValueAfter(pos) == fill_result.doc[pos[1]][pos[2]].field_value

(* The mapping applied: every widget whose name is a key and whose update
   did not raise holds str(mapping[name]), on every page; every widget whose
   name is no key holds its previous value; re-reading the output reports
   str(mapping[name]) for a key none of whose widgets' updates raised. *)
MappingApplied ==
    /\ \A pos \in WidgetPositions :
         IF NameAt(pos) \in DOMAIN field_values
         THEN pos \notin update_failed
                => ValueAfter(pos) = PyStr(field_values[NameAt(pos)])
         ELSE ValueAfter(pos) = ValueBefore(pos)
    /\ \A k \in DOMAIN verification \cap DOMAIN field_values :
         (\A pos \in WidgetPositions : NameAt(pos) = k => pos \notin update_failed)
           => verification[k] = PyStr(field_values[k])

(* C12: after fill_pdf_form_with_fitz_v2 succeeds, the output holds the
   mapping applied: str(mapping[name]) in every widget whose name is a key
   (its own update not having failed), on every page, also on re-reading,
   and the previous value in every other widget. *)
C12_FillAppliesMapping == Filled => MappingApplied

-----------------------------------------------------------------------------
(* Document-open failure, C13 *)

(* C13: when the engine fails to open the input, field discovery writes an
   empty JSON array, checkbox-value discovery an empty JSON object,
   page-to-image conversion an empty JSON array and field filling the input
   bytes as read, each ending with exit status 0; the verification utility
   ends with a non-zero status only when its path argument is missing. *)
C13_OpenFailureIsFailSoft ==
    Done => /\ open_failed
              => /\ exit_code = 0
                 /\ util = "discover_pdf_fields" => stdout = <<"[]">>
                 /\ util = "get_checkbox_values" => stdout = <<"{}">>
                 /\ util = "pdf_to_markdown_images" => stdout = <<"[]">>
                 /\ util = "fill_form_fields_fitz_v2" => stdout = <<pdf_data>>
            /\ (util = "verify_pdf" /\ exit_code # 0) => main_argv = <<>>

(* The filling script ended after the engine failed to open a non-empty
   input *)
C13_Witness ==
    /\ Done /\ open_failed
    /\ util = "fill_form_fields_fitz_v2"
    /\ pdf_data # ""
    /\ main_argv # <<>>
    /\ exit_code = 0

=============================================================================
